---- MODULE Spec2Model ----
(***************************************************************************)
(* Model of classification/introduction-to-classification.ipynb.          *)
(*                                                                         *)
(* The notebook keeps its state in kernel globals (counts, labels, words, *)
(* corpus, classifier, ...) that the code cells rebind.  The classifier   *)
(* is scikit-learn's KNeighborsClassifier and the term-document matrix is *)
(* built by scikit-learn's CountVectorizer; query vectors are built by    *)
(* the notebook itself (collections.Counter(text.split())).  The library  *)
(* calls are modelled by their behaviour in the scikit-learn releases the *)
(* notebook runs on (Python 3.5 kernel, get_feature_names: 0.20 - 0.22).  *)
(* Every library failure is a ValueError except NotFittedError; the model *)
(* names a failure by the kind of the error taxonomy it falls under.      *)
(***************************************************************************)
EXTENDS Integers, Sequences, FiniteSets, TLC

VARIABLES counts, labels, words, classifier, out,
          corpus, vectorizer, text, text_counts, stage,
          other, fits, prediction, files, pc

vars == <<counts, labels, words, classifier, out,
          corpus, vectorizer, text, text_counts, stage,
          other, fits, prediction, files, pc>>

\* the globals of the classifier cells and those of the vectorizer cells
knnVars == <<labels, classifier, out>>

vecVars == <<corpus, vectorizer, text, text_counts, stage>>

\* a second kernel running the same cells (other), the training sets the
\* bound classifier object has been fitted on (fits), the label cell 5
\* prints (prediction), the files glob.glob matches (files) and the place
\* a run of the cells has reached (pc)
runVars == <<other, fits, prediction, files, pc>>

\* ---------------------------------------------------------------- bounds
\* largest word count in a training or query vector
MaxCount == 1
\* largest number of training examples (files matched by glob.glob)
MaxTrain == 3

\* ------------------------------------------------------------- constants
\* KNeighborsClassifier(3)
n_neighbors == 3

Range(s) == {s[i] : i \in 1..Len(s)}

SeqsUpTo(S, n) == UNION {[1..m -> S] : m \in 0..n}

\* the labels of cell 41, in the order np.unique sorts them (classes_)
SortedLabels == <<"Hamilton", "Jay", "Madison">>

Labels == Range(SortedLabels)

\* count vectors: every count of 'bones' alone, and one stray vector that
\* counts two words ('bones', 'fossil')
Vectors == [1..1 -> 0..MaxCount] \cup {<<0, 0>>}

\* values of K a KNeighborsClassifier is constructed with
KValues == 0..n_neighbors

\* the vocabulary behind the one-word count vectors: 'bones'
Vocabulary == << <<"b", "o", "n", "e", "s">> >>

\* ------------------------------------------------- KNeighborsClassifier
\* KNeighborsClassifier(k): an estimator that holds only its parameter
KNeighborsClassifier(k) ==
  [n_neighbors |-> k, fitted |-> FALSE, fit_X |-> <<>>, y |-> <<>>]

RECURSIVE SumSq(_, _, _)
SumSq(a, b, i) ==
  IF i = 0 THEN 0 ELSE (a[i] - b[i]) * (a[i] - b[i]) + SumSq(a, b, i - 1)

\* a distance that looks at the first word count only
SqDistFirstOnly(a, b) == (a[1] - b[1]) * (a[1] - b[1])

\* squared Euclidean distance (metric='minkowski', p=2; the square root
\* is monotone and the counts are small integers)
SqDist(a, b) == SumSq(a, b, Len(a))

\* check_X_y that never compares the number of rows with the number of labels
check_X_yRowsOnly(X, y) ==
  /\ Len(X) > 0
  /\ \A i \in 1..Len(X) : Len(X[i]) = Len(X[1])

\* check_X_y: X converts to a non-empty 2-D array and has one row per label
check_X_y(X, y) ==
  /\ Len(X) > 0
  /\ \A i \in 1..Len(X) : Len(X[i]) = Len(X[1])
  /\ Len(X) = Len(y)

\* fit that never checks n_neighbors
fitNoKCheck(c, X, y) ==
  IF ~check_X_y(X, y)
  THEN [clf |-> c, status |-> "DimensionMismatchError"]
  ELSE [clf |-> [c EXCEPT !.fitted = TRUE, !.fit_X = X, !.y = y], status |-> "ok"]

\* fit that keeps the training set of an estimator that is fitted already
fitKeepsFirst(c, X, y) ==
  IF ~check_X_y(X, y)
  THEN [clf |-> c, status |-> "DimensionMismatchError"]
  ELSE [clf |-> IF c.fitted THEN c
                ELSE [c EXCEPT !.fitted = TRUE, !.fit_X = X, !.y = y],
        status |-> IF c.n_neighbors <= 0 THEN "InvalidKError" ELSE "ok"]

\* classifier.fit(X, y): validates the data, stores it in the estimator,
\* then checks n_neighbors > 0 (the last step of _fit)
fit(c, X, y) ==
  IF ~check_X_y(X, y)
  THEN [clf |-> c, status |-> "DimensionMismatchError"]
  ELSE [clf |-> [c EXCEPT !.fitted = TRUE, !.fit_X = X, !.y = y],
        status |-> IF c.n_neighbors <= 0 THEN "InvalidKError" ELSE "ok"]

\* a neighbour search that returns any K distinct indices, nearest first
kneighborsAnyK(X, q, k) ==
  {s \in [1..k -> 1..Len(X)] :
     /\ \A i, j \in 1..k : i # j => s[i] # s[j]
     /\ \A i, j \in 1..k : i < j => SqDist(X[s[i]], q) <= SqDist(X[s[j]], q)}

\* a neighbour search that returns the first K training vectors
kneighborsFirstK(X, q, k) == {[i \in 1..k |-> i]}

\* a neighbour search that keeps the K farthest vectors
kneighborsFarthest(X, q, k) ==
  {s \in [1..k -> 1..Len(X)] :
     /\ \A i, j \in 1..k : i # j => s[i] # s[j]
     /\ \A i, j \in 1..k : i < j => SqDist(X[s[i]], q) >= SqDist(X[s[j]], q)
     /\ \A m \in 1..Len(X) :
          m \notin Range(s) => SqDist(X[m], q) <= SqDist(X[s[k]], q)}

\* kneighbors: the index rows the neighbour search may return.  K distinct
\* training indices, nearest first, no unselected vector closer than a
\* selected one.  The library does not fix which of several equally distant
\* vectors is returned or listed first (argpartition / tree traversal).
kneighbors(X, q, k) ==
  {s \in [1..k -> 1..Len(X)] :
     /\ \A i, j \in 1..k : i # j => s[i] # s[j]
     /\ \A i, j \in 1..k : i < j => SqDist(X[s[i]], q) <= SqDist(X[s[j]], q)
     /\ \A m \in 1..Len(X) :
          m \notin Range(s) => SqDist(X[m], q) >= SqDist(X[s[k]], q)}

Votes(ys, l) == Cardinality({i \in 1..Len(ys) : ys[i] = l})

\* every label of the notebook in np.unique order (cell 41's labels are
\* capitalised, those of cells 17 and 30 are not)
Classes == SortedLabels \o <<"archeological", "medical">>

ClassIndex(l) == CHOOSE i \in 1..Len(Classes) : Classes[i] = l

\* a vote that returns the label of the nearest neighbour
modeNearest(ys) == ys[1]

\* a vote whose ties go to the label seen first among the neighbours
modeFirstSeen(ys) ==
  CHOOSE l \in Range(ys) :
    \A m \in Range(ys) :
      \/ Votes(ys, l) > Votes(ys, m)
      \/ /\ Votes(ys, l) = Votes(ys, m)
         /\ \A j \in 1..Len(ys) : ys[j] = m => \E i \in 1..j : ys[i] = l

\* stats.mode over the neighbours' class indices: the most frequent class,
\* the smallest class index among equally frequent ones
mode(ys) ==
  CHOOSE l \in Range(ys) :
    \A m \in Range(ys) :
      \/ Votes(ys, l) > Votes(ys, m)
      \/ Votes(ys, l) = Votes(ys, m) /\ ClassIndex(l) <= ClassIndex(m)

Failure(op, kind, q) ==
  [op |-> op, status |-> kind, label |-> "", neigh |-> <<>>, q |-> q]

\* predict without check_is_fitted
predictNoFittedCheck(c, q) ==
  IF c.n_neighbors <= 0 \/ c.n_neighbors > Len(c.fit_X)
    THEN {Failure("predict", "InvalidKError", q)}
  ELSE IF Len(q) # Len(c.fit_X[1])
    THEN {Failure("predict", "DimensionMismatchError", q)}
  ELSE {[op |-> "predict", status |-> "ok",
         label |-> mode([i \in 1..c.n_neighbors |-> c.y[s[i]]]),
         neigh |-> s, q |-> q] : s \in kneighbors(c.fit_X, q, c.n_neighbors)}

\* predict that cuts or zero-pads the query to the fitted dimension
predictPadQuery(c, q) ==
  IF ~c.fitted
    THEN {Failure("predict", "NotFittedError", q)}
  ELSE IF c.n_neighbors <= 0 \/ c.n_neighbors > Len(c.fit_X)
    THEN {Failure("predict", "InvalidKError", q)}
  ELSE LET p == [i \in 1..Len(c.fit_X[1]) |-> IF i <= Len(q) THEN q[i] ELSE 0] IN
       {[op |-> "predict", status |-> "ok",
         label |-> mode([i \in 1..c.n_neighbors |-> c.y[s[i]]]),
         neigh |-> s, q |-> q] : s \in kneighbors(c.fit_X, p, c.n_neighbors)}

\* classifier.predict([q]): the outcomes the call can have
predict(c, q) ==
  IF ~c.fitted
    THEN {Failure("predict", "NotFittedError", q)}
  ELSE IF c.n_neighbors <= 0 \/ c.n_neighbors > Len(c.fit_X)
    THEN {Failure("predict", "InvalidKError", q)}
  ELSE IF Len(q) # Len(c.fit_X[1])
    THEN {Failure("predict", "DimensionMismatchError", q)}
  ELSE {[op |-> "predict", status |-> "ok",
         label |-> mode([i \in 1..c.n_neighbors |-> c.y[s[i]]]),
         neigh |-> s, q |-> q] : s \in kneighbors(c.fit_X, q, c.n_neighbors)}

\* ------------------------------------------------------ CountVectorizer
\* a text is a sequence of characters; the characters of the model, in
\* code point order
CharOrder ==
  <<" ", ".", "?", "A", "I", "T", "a", "b", "c", "d", "e", "f", "h", "i",
    "m", "n", "o", "r", "s", "t", "u" >>

Chars == Range(CharOrder)

Whitespace == {" "}

\* \w of the token pattern
WordChars == Chars \ {" ", ".", "?"}

\* str.lower on one character
Lower(c) ==
  IF c = "A" THEN "a" ELSE IF c = "I" THEN "i" ELSE IF c = "T" THEN "t" ELSE c

lower(t) == [i \in 1..Len(t) |-> Lower(t[i])]

\* the maximal runs of characters of S in t, left to right
RECURSIVE RunsFrom(_, _, _, _, _)
RunsFrom(t, S, i, cur, acc) ==
  IF i > Len(t)
    THEN IF cur = <<>> THEN acc ELSE Append(acc, cur)
  ELSE IF t[i] \in S
    THEN RunsFrom(t, S, i + 1, Append(cur, t[i]), acc)
  ELSE RunsFrom(t, S, i + 1, <<>>, IF cur = <<>> THEN acc ELSE Append(acc, cur))

Runs(t, S) == RunsFrom(t, S, 1, <<>>, <<>>)

\* text.split(): the whitespace-delimited words of a text
split(t) == Runs(t, Chars \ Whitespace)

\* CountVectorizer's analyzer: lower-case the text, then take the runs of
\* two or more word characters (token_pattern (?u)\b\w\w+\b)
TwoOrMore(r) == Len(r) >= 2

analyze(t) == SelectSeq(Runs(lower(t), WordChars), TwoOrMore)

CharRank(c) == CHOOSE i \in 1..Len(CharOrder) : CharOrder[i] = c

\* s sorts before t (string comparison)
StrLess(s, t) ==
  \E i \in 1..(Len(s) + 1) :
    /\ \A j \in 1..(i - 1) : j <= Len(t) /\ s[j] = t[j]
    /\ \/ i = Len(s) + 1 /\ Len(t) >= i
       \/ i <= Len(s) /\ i <= Len(t) /\ CharRank(s[i]) < CharRank(t[i])

\* sorted(S)
Sorted(S) ==
  [i \in 1..Cardinality(S) |->
     CHOOSE w \in S : Cardinality({v \in S : StrLess(v, w)}) = i - 1]

\* number of entries of the list ts equal to w
Occurrences(ts, w) == Cardinality({k \in 1..Len(ts) : ts[k] = w})

RECURSIVE Concat(_)
Concat(ss) == IF Len(ss) = 0 THEN <<>> ELSE ss[1] \o Concat(Tail(ss))

\* the distinct tokens of the corpus in the order they are first met
get_feature_namesFirstSeen(docs) ==
  LET all == Concat([j \in 1..Len(docs) |-> analyze(docs[j])])
      first == {k \in 1..Len(all) : \A m \in 1..(k - 1) : all[m] # all[k]}
      at == CHOOSE q \in [1..Cardinality(first) -> first] :
              \A i, j \in 1..Cardinality(first) : i < j => q[i] < q[j]
  IN [i \in 1..Cardinality(first) |-> all[at[i]]]

\* vectorizer.get_feature_names() after fit_transform(docs): the distinct
\* tokens of the corpus, sorted
get_feature_names(docs) ==
  Sorted(UNION {Range(analyze(docs[j])) : j \in 1..Len(docs)})

\* vectorizer.fit_transform(docs).toarray(): one row per document, one
\* column per feature name
fit_transform(docs) ==
  LET V == get_feature_names(docs) IN
  [j \in 1..Len(docs) |-> [i \in 1..Len(V) |-> Occurrences(analyze(docs[j]), V[i])]]

\* [word_counts[w] for w in words if w in word_counts]
query_countsPresentOnly(t, V) ==
  LET present == SelectSeq(V, LAMBDA w : Occurrences(split(t), w) > 0) IN
  [i \in 1..Len(present) |-> Occurrences(split(t), present[i])]

\* t.count(w): the places of t where w starts
count(t, w) ==
  Cardinality({p \in 1..Len(t) :
    /\ p + Len(w) - 1 <= Len(t)
    /\ \A k \in 1..Len(w) : t[p + k - 1] = w[k]})

\* [text.count(w) for w in words]
query_countsSubstring(t, V) == [i \in 1..Len(V) |-> count(t, V[i])]

\* word_counts = collections.Counter(text.split());
\* text_counts = [word_counts.get(i, 0) for i in words]
query_counts(t, V) == [i \in 1..Len(V) |-> Occurrences(split(t), V[i])]

\* words as they stand in a file, without whitespace
RawTokens ==
  { <<"a", "b">>, <<"b", "a">>, <<"A", "b">>, <<"a", "b", ".">>, <<"a">> }

\* largest number of words in a training document
MaxTokens == 2

RECURSIVE Join(_)
Join(ts) ==
  IF Len(ts) = 0 THEN <<>>
  ELSE IF Len(ts) = 1 THEN ts[1]
  ELSE ts[1] \o <<" ">> \o Join(Tail(ts))

\* the texts of the training files: up to MaxTokens words, single spaces
Docs == {Join(ts) : ts \in SeqsUpTo(RawTokens, MaxTokens)}

\* the text t with the word w added at its end
Extend(t, w) == IF t = <<>> THEN w ELSE t \o <<" ">> \o w

\* the files classified afterwards start as a training file, a one-word
\* file or an empty file
QueryDocs == Range(corpus) \cup RawTokens \cup {<<>>}

\* ------------------------------------------------------------- actions
\* nothing but the cells of the specification at hand has run
NoRun ==
  /\ other = <<>>
  /\ fits = <<>>
  /\ prediction = ""
  /\ files = <<>>
  /\ pc = "idle"

\* the globals after a loading loop, a fresh KNeighborsClassifier(3) bound;
\* labels has one entry per row of counts, or is one entry short of it
Init ==
  /\ counts \in SeqsUpTo(Vectors, MaxTrain)
  /\ labels \in SeqsUpTo(Labels, MaxTrain)
  /\ Len(labels) \in {Len(counts) - 1, Len(counts)}
  /\ words = Vocabulary
  /\ classifier = KNeighborsClassifier(n_neighbors)
  /\ out = Failure("new", "ok", <<>>)
  /\ corpus = <<>>
  /\ vectorizer = [fitted |-> FALSE]
  /\ text = <<>>
  /\ text_counts = <<>>
  /\ stage = "none"
  /\ NoRun

\* classifier = KNeighborsClassifier(k)
Construct(k) ==
  /\ classifier' = KNeighborsClassifier(k)
  /\ out' = Failure("new", "ok", <<>>)
  /\ UNCHANGED <<counts, labels, words>>
  /\ UNCHANGED vecVars
  /\ UNCHANGED runVars

\* classifier.fit(counts, labels)
Fit ==
  LET r == fit(classifier, counts, labels) IN
  /\ classifier' = r.clf
  /\ out' = Failure("fit", r.status, <<>>)
  /\ UNCHANGED <<counts, labels, words>>
  /\ UNCHANGED vecVars
  /\ UNCHANGED runVars

\* classifier.predict([q])
Predict(q) ==
  /\ out' \in predict(classifier, q)
  /\ UNCHANGED <<counts, labels, words, classifier>>
  /\ UNCHANGED vecVars
  /\ UNCHANGED runVars

Next ==
  \/ \E k \in KValues : Construct(k)
  \/ Fit
  \/ \E q \in Vectors : Predict(q)

Spec == Init /\ [][Next]_vars

\* the globals when cell 30 has read a corpus of two files, one per genre
\* folder, and no vectorizer has been fitted yet
InitVec ==
  /\ corpus \in [1..2 -> Docs]
  /\ vectorizer = [fitted |-> FALSE]
  /\ counts = <<>>
  /\ words = <<>>
  /\ text = <<>>
  /\ text_counts = <<>>
  /\ stage = "none"
  /\ labels = <<>>
  /\ classifier = KNeighborsClassifier(n_neighbors)
  /\ out = Failure("new", "ok", <<>>)
  /\ NoRun

\* counts = vectorizer.fit_transform(corpus).toarray();
\* words = vectorizer.get_feature_names()
\* (fit_transform raises "empty vocabulary" when no document has a token,
\* and the cell then binds nothing)
FitTransform ==
  /\ ~vectorizer.fitted
  /\ get_feature_names(corpus) # <<>>
  /\ vectorizer' = [fitted |-> TRUE]
  /\ counts' = fit_transform(corpus)
  /\ words' = get_feature_names(corpus)
  /\ UNCHANGED <<corpus, text, text_counts, stage>>
  /\ UNCHANGED knnVars
  /\ UNCHANGED runVars

\* one pass of the loop of cell 36 up to text_counts, over a file d
ReadFile(d) ==
  /\ vectorizer.fitted
  /\ text' = d
  /\ text_counts' = query_counts(d, words)
  /\ stage' = "file"
  /\ UNCHANGED <<corpus, vectorizer, counts, words>>
  /\ UNCHANGED knnVars
  /\ UNCHANGED runVars

\* the same pass over the file with the word w added at its end
ReadExtendedFile(w) ==
  /\ vectorizer.fitted
  /\ stage = "file"
  /\ text' = Extend(text, w)
  /\ text_counts' = query_counts(text', words)
  /\ stage' = "extended"
  /\ UNCHANGED <<corpus, vectorizer, counts, words>>
  /\ UNCHANGED knnVars
  /\ UNCHANGED runVars

NextVec ==
  \/ FitTransform
  \/ \E d \in QueryDocs : ReadFile(d)
  \/ \E w \in RawTokens : ReadExtendedFile(w)

SpecVec == InitVec /\ [][NextVec]_vars

\* ------------------------------------------------------------- cell 5
\* largest number of words in a file cell 5 reads
MaxWords == 7

\* counts['bones'] > 5
BonesThreshold == 5

\* collections.Counter(ws)
Counter(ws) == [w \in Range(ws) |-> Occurrences(ws, w)]

\* c[w] on a Counter: 0 for a missing key
CounterGet(c, w) == IF w \in DOMAIN c THEN c[w] ELSE 0

\* 'archeological' if counts['bones'] >= 5 else 'medical'
single_wordAtLeast(c) ==
  IF CounterGet(c, Vocabulary[1]) >= BonesThreshold THEN "archeological" ELSE "medical"

\* 'archeological' if counts['bones'] > 5 else 'medical'
single_word(c) ==
  IF CounterGet(c, Vocabulary[1]) > BonesThreshold THEN "archeological" ELSE "medical"

\* the words of the files of cell 5: 'bones', 'bones.' and another word
BonesTokens == {Vocabulary[1], Vocabulary[1] \o <<".">>, <<"a">>}

BonesDocs == {Join(ts) : ts \in SeqsUpTo(BonesTokens, MaxWords)}

\* the kernel before cell 5 runs; files holds the texts of the files
\* glob.glob matched that the loop has not read yet (one or two files)
InitBones ==
  /\ files \in [1..1 -> BonesDocs] \cup [1..2 -> {Join(<<w>>) : w \in BonesTokens}]
  /\ counts = <<>>
  /\ labels = <<>>
  /\ words = <<>>
  /\ classifier = KNeighborsClassifier(n_neighbors)
  /\ out = Failure("new", "ok", <<>>)
  /\ corpus = <<>>
  /\ vectorizer = [fitted |-> FALSE]
  /\ text = <<>>
  /\ text_counts = <<>>
  /\ stage = "none"
  /\ other = <<>>
  /\ fits = <<>>
  /\ prediction = ""
  /\ pc = "idle"

\* one pass of the loop of cell 5, over the next file
ClassifyFile ==
  /\ files # <<>>
  /\ files' = Tail(files)
  /\ text' = Head(files)
  /\ words' = split(text')
  /\ counts' = Counter(words')
  /\ prediction' = single_word(counts')
  /\ UNCHANGED <<corpus, vectorizer, text_counts, stage>>
  /\ UNCHANGED <<other, fits, pc>>
  /\ UNCHANGED knnVars

NextBones == ClassifyFile

SpecBones == InitBones /\ [][NextBones]_vars

\* ------------------------------------------------------------ cell 41
\* largest number of files glob.glob matches under federalist-papers
MaxFiles == 3

\* a path federalist-papers/<folder>/<name>.txt is the sequence of its
\* three parts; the folders are those the notebook names, and a file is
\* named after the paper or after an author
Folders == {"hamilton", "jay", "madison", "disputed"}

FileNames == {"paper", "hamilton", "jay", "madison"}

Paths == {<<"federalist-papers", f, n>> : f \in Folders, n \in FileNames}

\* w in i: no part of a path of the model holds an author's name beside
\* other characters, so the name is in the path when it is one of the parts
In(w, i) == \E k \in 1..Len(i) : i[k] = w

\* open(i).read(): the text of the file at path i
read(i) == <<"text of">> \o i

\* the label the if/elif chain binds, "" where it reaches continue
label_of(i) ==
  IF In("hamilton", i) THEN "Hamilton"
  ELSE IF In("madison", i) THEN "Madison"
  ELSE IF In("jay", i) THEN "Jay"
  ELSE ""

\* corpus = []; labels = []; glob.glob(path) has matched the files, and
\* the loop is about to read the first of them
InitLoad ==
  /\ files \in {fs \in SeqsUpTo(Paths, MaxFiles) :
                  \A a, b \in 1..Len(fs) : a # b => fs[a] # fs[b]}
  /\ pc = [cell |-> "41", next |-> 1]
  /\ corpus = <<>>
  /\ labels = <<>>
  /\ counts = <<>>
  /\ words = <<>>
  /\ classifier = KNeighborsClassifier(n_neighbors)
  /\ out = Failure("new", "ok", <<>>)
  /\ vectorizer = [fitted |-> FALSE]
  /\ text = <<>>
  /\ text_counts = <<>>
  /\ stage = "none"
  /\ other = <<>>
  /\ fits = <<>>
  /\ prediction = ""

\* one pass of the loop of cell 41
LoadFile ==
  LET i == files[pc.next] IN
  /\ pc.next <= Len(files)
  /\ pc' = [pc EXCEPT !.next = pc.next + 1]
  /\ IF label_of(i) = ""
       THEN UNCHANGED <<corpus, labels>>
       ELSE /\ corpus' = Append(corpus, read(i))
            /\ labels' = Append(labels, label_of(i))
  /\ UNCHANGED <<counts, words, classifier, out>>
  /\ UNCHANGED <<vectorizer, text, text_counts, stage>>
  /\ UNCHANGED <<other, fits, prediction, files>>

NextLoad == LoadFile

SpecLoad == InitLoad /\ [][NextLoad]_vars

\* ------------------------------------------------ cells 17 and 19, example
\* largest word count in a query of the example
MaxQuery == 10

\* [text.count('bones'), text.count('fossil')] of four files of data_a, two
\* per genre folder, and their labels
ExampleCounts == << <<10, 0>>, <<8, 1>>, <<0, 9>>, <<1, 7>> >>

ExampleLabels == <<"archeological", "archeological", "medical", "medical">>

ExampleQueries == [1..2 -> 0..MaxQuery]

\* the globals after the loading loop of cell 17 over the four files
InitExample ==
  /\ counts = ExampleCounts
  /\ labels = ExampleLabels
  /\ words = <<>>
  /\ classifier = KNeighborsClassifier(n_neighbors)
  /\ out = Failure("new", "ok", <<>>)
  /\ corpus = <<>>
  /\ vectorizer = [fitted |-> FALSE]
  /\ text = <<>>
  /\ text_counts = <<>>
  /\ stage = "none"
  /\ NoRun

NextExample ==
  \/ \E k \in KValues : Construct(k)
  \/ Fit
  \/ \E q \in ExampleQueries : Predict(q)

SpecExample == InitExample /\ [][NextExample]_vars

\* ------------------------------------------- fitting a classifier again
\* the training sets a loading loop builds from one file
RefitData ==
  {[X |-> <<v>>, y |-> <<l>>] : v \in [1..1 -> 0..MaxCount], l \in Labels}

\* the globals after a loading loop over one file, a fresh
\* KNeighborsClassifier(3) bound; fits lists the first and the latest
\* training set the bound classifier object was fitted on
InitRefit ==
  /\ \E d \in RefitData : counts = d.X /\ labels = d.y
  /\ words = Vocabulary
  /\ classifier = KNeighborsClassifier(n_neighbors)
  /\ out = Failure("new", "ok", <<>>)
  /\ corpus = <<>>
  /\ vectorizer = [fitted |-> FALSE]
  /\ text = <<>>
  /\ text_counts = <<>>
  /\ stage = "none"
  /\ other = <<>>
  /\ fits = <<>>
  /\ prediction = ""
  /\ files = <<>>
  /\ pc = "idle"

\* a loading loop rebinds counts and labels
Load(d) ==
  /\ counts' = d.X
  /\ labels' = d.y
  /\ UNCHANGED <<words, classifier, out>>
  /\ UNCHANGED vecVars
  /\ UNCHANGED runVars

\* classifier = KNeighborsClassifier(k): a new object is bound
RefitConstruct(k) ==
  /\ classifier' = KNeighborsClassifier(k)
  /\ out' = Failure("new", "ok", <<>>)
  /\ fits' = <<>>
  /\ UNCHANGED <<counts, labels, words, other, prediction, files, pc>>
  /\ UNCHANGED vecVars

\* classifier.fit(counts, labels) on the object bound to classifier
RefitFit ==
  LET r == fit(classifier, counts, labels)
      d == [X |-> counts, y |-> labels] IN
  /\ classifier' = r.clf
  /\ out' = Failure("fit", r.status, <<>>)
  /\ fits' = IF r.status # "ok" THEN fits
             ELSE IF fits = <<>> THEN <<d>> ELSE <<fits[1], d>>
  /\ UNCHANGED <<counts, labels, words, other, prediction, files, pc>>
  /\ UNCHANGED vecVars

NextRefit ==
  \/ \E d \in RefitData : Load(d)
  \/ \E k \in KValues : RefitConstruct(k)
  \/ RefitFit
  \/ \E q \in Vectors : Predict(q)

SpecRefit == InitRefit /\ [][NextRefit]_vars

\* ------------------------------------------------- two kernels, cell 17
\* the files glob.glob returned, last first
Reversed(s) == [i \in 1..Len(s) |-> s[Len(s) + 1 - i]]

\* the files glob.glob returned, the first one last
Rotated(s) == [i \in 1..Len(s) |-> s[(i % Len(s)) + 1]]

\* two kernels have run the loading loop of cell 17 over the same files;
\* glob.glob enumerated them in different orders
InitOrder ==
  /\ \E n \in 1..MaxTrain :
       /\ counts \in [1..n -> [1..1 -> 0..MaxCount]]
       /\ labels \in [1..n -> Labels]
  /\ words = Vocabulary
  /\ classifier = KNeighborsClassifier(n_neighbors)
  /\ out = Failure("new", "ok", <<>>)
  /\ \E order \in {Reversed([i \in 1..Len(counts) |-> i]),
                    Rotated([i \in 1..Len(counts) |-> i])} :
       other = [counts |-> [i \in 1..Len(counts) |-> counts[order[i]]],
                labels |-> [i \in 1..Len(counts) |-> labels[order[i]]],
                classifier |-> KNeighborsClassifier(n_neighbors),
                out |-> Failure("new", "ok", <<>>)]
  /\ corpus = <<>>
  /\ vectorizer = [fitted |-> FALSE]
  /\ text = <<>>
  /\ text_counts = <<>>
  /\ stage = "none"
  /\ fits = <<>>
  /\ prediction = ""
  /\ files = <<>>
  /\ pc = "idle"

\* classifier = KNeighborsClassifier(k) in both kernels
BothConstruct(k) ==
  /\ classifier' = KNeighborsClassifier(k)
  /\ out' = Failure("new", "ok", <<>>)
  /\ other' = [other EXCEPT !.classifier = KNeighborsClassifier(k),
                            !.out = Failure("new", "ok", <<>>)]
  /\ UNCHANGED <<counts, labels, words, fits, prediction, files, pc>>
  /\ UNCHANGED vecVars

\* classifier.fit(counts, labels) in both kernels
BothFit ==
  LET r == fit(classifier, counts, labels)
      ro == fit(other.classifier, other.counts, other.labels) IN
  /\ classifier' = r.clf
  /\ out' = Failure("fit", r.status, <<>>)
  /\ other' = [other EXCEPT !.classifier = ro.clf,
                            !.out = Failure("fit", ro.status, <<>>)]
  /\ UNCHANGED <<counts, labels, words, fits, prediction, files, pc>>
  /\ UNCHANGED vecVars

\* classifier.predict([q]) in both kernels; of the other kernel's call the
\* outcome and the label are kept
BothPredict(q) ==
  /\ out' \in predict(classifier, q)
  /\ \E o \in {[op |-> r.op, status |-> r.status, label |-> r.label] :
                 r \in predict(other.classifier, q)} :
       other' = [other EXCEPT !.out = o]
  /\ UNCHANGED <<counts, labels, words, classifier, fits, prediction, files, pc>>
  /\ UNCHANGED vecVars

NextOrder ==
  \/ \E k \in KValues : BothConstruct(k)
  \/ BothFit
  \/ \E q \in Vectors : BothPredict(q)

SpecOrder == InitOrder /\ [][NextOrder]_vars

\* --------------------------------------------------- two kernels, cell 30
\* two kernels have run the loading loop of cell 30 over the same two
\* files; glob.glob enumerated them in opposite orders
InitRuns ==
  /\ corpus \in [1..2 -> Docs]
  /\ vectorizer = [fitted |-> FALSE]
  /\ counts = <<>>
  /\ words = <<>>
  /\ text = <<>>
  /\ text_counts = <<>>
  /\ stage = "none"
  /\ labels = <<>>
  /\ classifier = KNeighborsClassifier(n_neighbors)
  /\ out = Failure("new", "ok", <<>>)
  /\ other = [corpus |-> Reversed(corpus), vectorizer |-> [fitted |-> FALSE],
              words |-> <<>>, text |-> <<>>, text_counts |-> <<>>,
              stage |-> "none"]
  /\ fits = <<>>
  /\ prediction = ""
  /\ files = <<>>
  /\ pc = "idle"

\* vectorizer.fit_transform(corpus), get_feature_names() in the other kernel
OtherFitTransform ==
  /\ ~other.vectorizer.fitted
  /\ get_feature_names(other.corpus) # <<>>
  /\ other' = [other EXCEPT !.vectorizer = [fitted |-> TRUE],
                            !.words = get_feature_names(other.corpus)]
  /\ UNCHANGED <<counts, words, fits, prediction, files, pc>>
  /\ UNCHANGED vecVars
  /\ UNCHANGED knnVars

\* one pass of the loop of cell 36 up to text_counts in the other kernel
OtherReadFile(d) ==
  /\ other.vectorizer.fitted
  /\ other' = [other EXCEPT !.text = d,
                            !.text_counts = query_counts(d, other.words),
                            !.stage = "file"]
  /\ UNCHANGED <<counts, words, fits, prediction, files, pc>>
  /\ UNCHANGED vecVars
  /\ UNCHANGED knnVars

NextRuns ==
  \/ FitTransform
  \/ \E d \in QueryDocs : ReadFile(d)
  \/ OtherFitTransform
  \/ \E d \in Range(other.corpus) : OtherReadFile(d)

SpecRuns == InitRuns /\ [][NextRuns]_vars

\* ------------------------------------------- the cells, top to bottom
\* the corpus of cell 28
ToyCorpus ==
  << <<"T", "h", "i", "s", " ", "i", "s", " ", "t", "h", "e", " ", "f",
       "i", "r", "s", "t", " ", "d", "o", "c", "u", "m", "e", "n", "t",
       "." >>,
     <<"T", "h", "i", "s", " ", "d", "o", "c", "u", "m", "e", "n", "t",
       " ", "i", "s", " ", "t", "h", "e", " ", "s", "e", "c", "o", "n",
       "d", " ", "d", "o", "c", "u", "m", "e", "n", "t", "." >>,
     <<"A", "n", "d", " ", "t", "h", "i", "s", " ", "i", "s", " ", "t",
       "h", "e", " ", "t", "h", "i", "r", "d", " ", "o", "n", "e", "." >>,
     <<"I", "s", " ", "t", "h", "i", "s", " ", "t", "h", "e", " ", "f",
       "i", "r", "s", "t", " ", "d", "o", "c", "u", "m", "e", "n", "t",
       "?" >> >>

\* the texts of the files of data_a and data_c: 'bones ab' and 'a'
DataTexts == {Vocabulary[1] \o <<" ", "a", "b">>, <<"a">>}

\* a file of data_a: the genre folder it lies in and its text
DataFiles == [folder : {"archeological", "medical"}, text : DataTexts]

\* 'archeological' if 'archeological' in i else 'medical'
genre(f) == IF f.folder = "archeological" THEN "archeological" ELSE "medical"

\* the files of federalist-papers, named after the paper
PaperPaths == {i \in Paths : i[3] = "paper"}

\* the text of a Federalist paper: the word 'bones' and, standing for the
\* rest of the text, the parts of the path
paper_text(i) == Vocabulary[1] \o <<" ">> \o read(i)

fossil == <<"f", "o", "s", "s", "i", "l">>

\* the next cell to run (cells that print, plot or are empty are left out)
At(c) == [cell |-> c, next |-> 1]

\* a call that raises stops the run
Then(status, c) == IF status = "ok" THEN At(c) ELSE At("stopped")

\* a fresh kernel; files holds the files of data_a
InitNotebook ==
  /\ files \in SeqsUpTo(DataFiles, MaxTrain)
  /\ pc = At("5")
  /\ counts = <<>>
  /\ labels = <<>>
  /\ words = <<>>
  /\ classifier = KNeighborsClassifier(n_neighbors)
  /\ out = Failure("new", "ok", <<>>)
  /\ corpus = <<>>
  /\ vectorizer = [fitted |-> FALSE]
  /\ text = <<>>
  /\ text_counts = <<>>
  /\ stage = "none"
  /\ other = <<>>
  /\ fits = <<>>
  /\ prediction = ""

\* cell 5: the loop binds text, words, counts and prediction for each file
Cell5 ==
  /\ pc.cell = "5"
  /\ pc' = At("17")
  /\ IF files = <<>>
       THEN UNCHANGED <<text, words, counts, prediction>>
       ELSE /\ text' = files[Len(files)].text
            /\ words' = split(text')
            /\ counts' = Counter(words')
            /\ prediction' = single_word(counts')
  /\ UNCHANGED <<labels, classifier, out, corpus, vectorizer, text_counts>>
  /\ UNCHANGED <<stage, other, fits, files>>

\* cell 17 up to classifier = KNeighborsClassifier(3)
Cell17 ==
  /\ pc.cell = "17"
  /\ pc' = At("17fit")
  /\ counts' = [j \in 1..Len(files) |->
                  <<count(files[j].text, Vocabulary[1]), count(files[j].text, fossil)>>]
  /\ labels' = [j \in 1..Len(files) |-> genre(files[j])]
  /\ text' = IF files = <<>> THEN text ELSE files[Len(files)].text
  /\ classifier' = KNeighborsClassifier(n_neighbors)
  /\ out' = Failure("new", "ok", <<>>)
  /\ UNCHANGED <<words, corpus, vectorizer, text_counts, prediction>>
  /\ UNCHANGED <<stage, other, fits, files>>

\* classifier.fit(counts, labels) at the end of cell 17
Cell17Fit ==
  LET r == fit(classifier, counts, labels) IN
  /\ pc.cell = "17fit"
  /\ pc' = Then(r.status, "19")
  /\ classifier' = r.clf
  /\ out' = Failure("fit", r.status, <<>>)
  /\ UNCHANGED <<counts, labels, words, corpus, vectorizer, text, text_counts>>
  /\ UNCHANGED <<stage, other, fits, files, prediction>>

\* cell 19: classifier.predict([[5, 1]])
Cell19 ==
  /\ pc.cell = "19"
  /\ out' \in predict(classifier, <<5, 1>>)
  /\ pc' = Then(out'.status, "25")
  /\ UNCHANGED <<counts, labels, words, classifier, corpus, vectorizer, text>>
  /\ UNCHANGED <<text_counts, stage, other, fits, files, prediction>>

\* cells 25 and 34: classifier = KNeighborsClassifier(3);
\* classifier.fit(counts, labels)
ConstructAndFit(c, d) ==
  LET r == fit(KNeighborsClassifier(n_neighbors), counts, labels) IN
  /\ pc.cell = c
  /\ pc' = Then(r.status, d)
  /\ classifier' = r.clf
  /\ out' = Failure("fit", r.status, <<>>)
  /\ UNCHANGED <<counts, labels, words, corpus, vectorizer, text, text_counts>>
  /\ UNCHANGED <<stage, other, fits, files, prediction>>

Cell25 == ConstructAndFit("25", "28")

\* cell 28: the vectorizer on the four documents; labels is not rebound
Cell28 ==
  /\ pc.cell = "28"
  /\ pc' = At("30")
  /\ vectorizer' = [fitted |-> TRUE]
  /\ corpus' = ToyCorpus
  /\ counts' = fit_transform(ToyCorpus)
  /\ words' = get_feature_names(ToyCorpus)
  /\ UNCHANGED <<labels, classifier, out, text, text_counts, prediction>>
  /\ UNCHANGED <<stage, other, fits, files>>

\* cell 30 with labels never emptied: the labels of data_a are appended to
\* those cell 17 made
Cell30KeepsLabels ==
  LET docs == [j \in 1..Len(files) |-> files[j].text]
      ok == get_feature_names(docs) # <<>> IN
  /\ pc.cell = "30"
  /\ pc' = Then(IF ok THEN "ok" ELSE "empty vocabulary", "34")
  /\ corpus' = docs
  /\ labels' = labels \o [j \in 1..Len(files) |-> genre(files[j])]
  /\ vectorizer' = [fitted |-> ok]
  /\ counts' = IF ok THEN fit_transform(docs) ELSE counts
  /\ words' = IF ok THEN get_feature_names(docs) ELSE words
  /\ UNCHANGED <<classifier, out, text, text_counts, prediction>>
  /\ UNCHANGED <<stage, other, fits, files>>

\* cell 30: corpus and labels from the files of data_a, then counts and
\* words from the vectorizer (which raises on an empty vocabulary)
Cell30 ==
  LET docs == [j \in 1..Len(files) |-> files[j].text]
      ok == get_feature_names(docs) # <<>> IN
  /\ pc.cell = "30"
  /\ pc' = Then(IF ok THEN "ok" ELSE "empty vocabulary", "34")
  /\ corpus' = docs
  /\ labels' = [j \in 1..Len(files) |-> genre(files[j])]
  /\ vectorizer' = [fitted |-> ok]
  /\ counts' = IF ok THEN fit_transform(docs) ELSE counts
  /\ words' = IF ok THEN get_feature_names(docs) ELSE words
  /\ UNCHANGED <<classifier, out, text, text_counts, prediction>>
  /\ UNCHANGED <<stage, other, fits, files>>

Cell34 == ConstructAndFit("34", "36")

\* cell 36, one pass of the loop up to text_counts, over a file of data_c
Cell36Read(t) ==
  /\ pc.cell = "36"
  /\ pc' = At("36predict")
  /\ text' = t
  /\ text_counts' = query_counts(t, words)
  /\ UNCHANGED <<counts, labels, words, classifier, out, corpus, vectorizer>>
  /\ UNCHANGED <<stage, other, fits, files, prediction>>

\* prediction = classifier.predict([text_counts])
Cell36Predict ==
  /\ pc.cell = "36predict"
  /\ out' \in predict(classifier, text_counts)
  /\ prediction' = out'.label
  /\ pc' = Then(out'.status, "36")
  /\ UNCHANGED <<counts, labels, words, classifier, corpus, vectorizer, text>>
  /\ UNCHANGED <<text_counts, stage, other, fits, files>>

\* the loop of cell 36 has passed every file of data_c
Cell36Done ==
  /\ pc.cell = "36"
  /\ pc' = At("41")
  /\ UNCHANGED <<counts, labels, words, classifier, out, corpus, vectorizer>>
  /\ UNCHANGED <<text, text_counts, stage, other, fits, files, prediction>>

\* cell 41: the loop over the files fs that glob.glob matches
Cell41(fs) ==
  LET kept == SelectSeq(fs, LAMBDA i : label_of(i) # "") IN
  /\ pc.cell = "41"
  /\ pc' = At("43")
  /\ corpus' = [j \in 1..Len(kept) |-> paper_text(kept[j])]
  /\ labels' = [j \in 1..Len(kept) |-> label_of(kept[j])]
  /\ UNCHANGED <<counts, words, classifier, out, vectorizer, text, text_counts>>
  /\ UNCHANGED <<stage, other, fits, files, prediction>>

\* cell 43: vectorizer = CountVectorizer(); classifier = KNeighborsClassifier(3)
Cell43 ==
  /\ pc.cell = "43"
  /\ pc' = At("46")
  /\ vectorizer' = [fitted |-> FALSE]
  /\ classifier' = KNeighborsClassifier(n_neighbors)
  /\ out' = Failure("new", "ok", <<>>)
  /\ UNCHANGED <<counts, labels, words, corpus, text, text_counts>>
  /\ UNCHANGED <<stage, other, fits, files, prediction>>

\* cell 46: counts = vectorizer.fit_transform(corpus).toarray()
Cell46 ==
  LET ok == get_feature_names(corpus) # <<>> IN
  /\ pc.cell = "46"
  /\ pc' = Then(IF ok THEN "ok" ELSE "empty vocabulary", "46fit")
  /\ vectorizer' = [fitted |-> ok]
  /\ counts' = IF ok THEN fit_transform(corpus) ELSE counts
  /\ UNCHANGED <<labels, words, classifier, out, corpus, text, text_counts>>
  /\ UNCHANGED <<stage, other, fits, files, prediction>>

\* cell 46: classifier.fit(counts, labels);
\* words = vectorizer.get_feature_names()
Cell46Fit ==
  LET r == fit(classifier, counts, labels) IN
  /\ pc.cell = "46fit"
  /\ pc' = Then(r.status, "46loop")
  /\ classifier' = r.clf
  /\ out' = Failure("fit", r.status, <<>>)
  /\ words' = IF r.status = "ok" THEN get_feature_names(corpus) ELSE words
  /\ UNCHANGED <<counts, labels, corpus, vectorizer, text, text_counts>>
  /\ UNCHANGED <<stage, other, fits, files, prediction>>

\* cell 46: the loop over the disputed papers, all passes
Cell46Loop(fs) ==
  /\ pc.cell = "46loop"
  /\ pc' = At("end")
  /\ text' = IF fs = <<>> THEN text ELSE paper_text(fs[Len(fs)])
  /\ text_counts' = IF fs = <<>> THEN text_counts ELSE query_counts(text', words)
  /\ UNCHANGED <<counts, labels, words, classifier, out, corpus, vectorizer>>
  /\ UNCHANGED <<stage, other, fits, files, prediction>>

\* the lists of files glob.glob can match under federalist-papers
PaperLists ==
  {fs \in SeqsUpTo(PaperPaths, MaxFiles) :
     \A a, b \in 1..Len(fs) : a # b => fs[a] # fs[b]}

NextNotebook ==
  \/ Cell5
  \/ Cell17
  \/ Cell17Fit
  \/ Cell19
  \/ Cell25
  \/ Cell28
  \/ Cell30
  \/ Cell34
  \/ \E t \in DataTexts : Cell36Read(t)
  \/ Cell36Predict
  \/ Cell36Done
  \/ \E fs \in PaperLists : Cell41(fs)
  \/ Cell43
  \/ Cell46
  \/ Cell46Fit
  \/ \E fs \in PaperLists : Cell46Loop(SelectSeq(fs, LAMBDA i : i[2] = "disputed"))

SpecNotebook == InitNotebook /\ [][NextNotebook]_vars

\* ---------------------------------------------------------------- claims
\* the call whose outcome `out` holds
Predicted == out.op = "predict" /\ out.status = "ok"

Dist(i) == SqDist(classifier.fit_X[i], out.q)

\* labels of the selected neighbours, nearest first
NeighLabels == [i \in 1..Len(out.neigh) |-> classifier.y[out.neigh[i]]]

\* i is ordered before j by (distance, training index)
Before(i, j) == Dist(i) < Dist(j) \/ (Dist(i) = Dist(j) /\ i < j)

\* C1 as stated: the neighbours are exactly the K training vectors that
\* come first by distance, equal distances ordered by lower training index.
C1_LowerIndexFirst ==
  Predicted =>
    /\ Len(out.neigh) = classifier.n_neighbors
    /\ \A a, b \in 1..Len(out.neigh) :
         a < b => Before(out.neigh[a], out.neigh[b])
    /\ \A m \in 1..Len(counts) :
         m \notin Range(out.neigh) => Before(out.neigh[Len(out.neigh)], m)

\* C1 (amended): predict selects K distinct training vectors of the fitted
\* set, listed nearest first, and no unselected training vector is closer
\* to the query than a selected one; the training index does not decide
\* between equally distant vectors.
C1_KNearest ==
  Predicted =>
    /\ classifier.fit_X = counts
    /\ Len(out.neigh) = classifier.n_neighbors
    /\ \A a \in 1..Len(out.neigh) : out.neigh[a] \in 1..Len(counts)
    /\ \A a, b \in 1..Len(out.neigh) :
         a < b => /\ out.neigh[a] # out.neigh[b]
                  /\ SqDist(counts[out.neigh[a]], out.q)
                       <= SqDist(counts[out.neigh[b]], out.q)
    /\ \A m \in 1..Len(counts) : \A a \in 1..Len(out.neigh) :
         m \notin Range(out.neigh) =>
           SqDist(counts[m], out.q) >= SqDist(counts[out.neigh[a]], out.q)

\* a predict that had to leave out a training vector as close as one it took
C1_Witness ==
  /\ Predicted
  /\ \E m \in 1..Len(counts) : \E a \in 1..Len(out.neigh) :
       /\ m \notin Range(out.neigh)
       /\ Dist(m) = Dist(out.neigh[a])
       /\ m < out.neigh[a]

\* position of the first neighbour labelled l
FirstAt(ys, l) == CHOOSE i \in 1..Len(ys) : ys[i] = l /\ \A j \in 1..(i - 1) : ys[j] # l

\* C2 as stated: the returned label has the highest count among the K
\* neighbours, and among equally frequent labels it is the one that occurs
\* first in nearest-to-farthest order (equal distances by lower index).
C2_FirstOccurrenceWins ==
  (Predicted /\ \A a, b \in 1..Len(out.neigh) :
                  a < b => Before(out.neigh[a], out.neigh[b])) =>
    \A m \in Range(NeighLabels) :
      \/ Votes(NeighLabels, out.label) > Votes(NeighLabels, m)
      \/ /\ Votes(NeighLabels, out.label) = Votes(NeighLabels, m)
         /\ FirstAt(NeighLabels, out.label) <= FirstAt(NeighLabels, m)

\* C2 (amended): the returned label has the highest count among the K
\* neighbours, and among equally frequent labels it is the one that comes
\* first in the sorted order of the class labels (Hamilton, Jay, Madison),
\* wherever it occurs in the neighbour order.
C2_SmallestClassWins ==
  Predicted =>
    /\ out.label \in Range(NeighLabels)
    /\ \A m \in Range(NeighLabels) :
         \/ Votes(NeighLabels, out.label) > Votes(NeighLabels, m)
         \/ /\ Votes(NeighLabels, out.label) = Votes(NeighLabels, m)
            /\ ClassIndex(out.label) <= ClassIndex(m)

\* a three-way tie with K = 3 whose first neighbour is strictly the closest
\* and does not carry the label returned
C2_Witness ==
  /\ Predicted
  /\ classifier.n_neighbors = 3
  /\ Cardinality(Range(NeighLabels)) = 3
  /\ Dist(out.neigh[1]) < Dist(out.neigh[2])
  /\ out.label = "Hamilton"
  /\ NeighLabels[1] = "Madison"

\* the lowest training index among the vectors closest to the query
BruteForceNearest ==
  CHOOSE i \in 1..Len(counts) :
    \A m \in 1..Len(counts) : Dist(i) < Dist(m) \/ (Dist(i) = Dist(m) /\ i <= m)

WellFormed ==
  /\ Len(counts) > 0
  /\ Len(counts) = Len(labels)
  /\ \A i, j \in 1..Len(counts) : Len(counts[i]) = Len(counts[j])

\* C4 as stated: fit fails with InvalidKError whenever k <= 0, k is even or
\* k exceeds the number of training examples, and then leaves no fitted
\* classifier; for a positive odd k within range it does not (the training
\* data being well-formed, so that no other failure of fit is in play).
C4_RejectsEvenAndLargeK ==
  (out.op = "fit" /\ WellFormed) =>
    LET k == classifier.n_neighbors IN
    /\ (k <= 0 \/ k % 2 = 0 \/ k > Len(counts)) =>
         (out.status = "InvalidKError" /\ ~classifier.fitted)
    /\ (k > 0 /\ k % 2 = 1 /\ k <= Len(counts)) => out.status # "InvalidKError"

\* C4 (amended): fit fails with InvalidKError whenever k <= 0 and the
\* training data are well-formed; for every positive k, even ones and ones
\* greater than the number of training examples included, it does not fail
\* with InvalidKError; a k greater than the number of training examples
\* makes every later predict fail with InvalidKError instead.
C4_RejectsNonPositiveK ==
  LET k == classifier.n_neighbors IN
  /\ out.op = "fit" =>
       /\ (k <= 0 /\ WellFormed) => out.status = "InvalidKError"
       /\ k > 0 => out.status # "InvalidKError"
       /\ (k > 0 /\ WellFormed) => (out.status = "ok" /\ classifier.fitted)
  /\ (out.op = "predict" /\ classifier.fitted /\ k > Len(counts)) =>
       (out.status = "InvalidKError" /\ out.label = "")

\* fit refused K = 0 on well-formed data
C4_Witness ==
  /\ out.op = "fit"
  /\ classifier.n_neighbors = 0
  /\ WellFormed
  /\ out.status = "InvalidKError"

\* C5 as stated: fit fails with DimensionMismatchError whenever the number
\* of training vectors differs from the number of labels or a training
\* vector's length differs from the vocabulary length, and no fitted
\* classifier results.
C5_ChecksVocabularyLength ==
  (out.op = "fit" /\ (\/ Len(counts) # Len(labels)
                      \/ \E i \in 1..Len(counts) : Len(counts[i]) # Len(words))) =>
    (out.status = "DimensionMismatchError" /\ ~classifier.fitted)

\* C5 (amended): fit fails with DimensionMismatchError whenever the number
\* of training vectors differs from the number of labels or the training
\* vectors do not all have the same length, and no fitted classifier
\* results; the vocabulary is not an input of fit, so vectors of one common
\* length that is not the vocabulary's are accepted.
C5_ChecksRowsAndLabels ==
  (\/ Len(counts) # Len(labels)
   \/ \E i, j \in 1..Len(counts) : Len(counts[i]) # Len(counts[j])) =>
    /\ ~classifier.fitted
    /\ out.op = "fit" => out.status = "DimensionMismatchError"

\* fit refused three training vectors that came with two labels
C5_Witness ==
  /\ out.op = "fit"
  /\ Len(counts) = 3
  /\ Len(labels) = 2
  /\ out.status = "DimensionMismatchError"
  /\ ~classifier.fitted

WrongDimension ==
  /\ out.op = "predict"
  /\ classifier.fitted
  /\ Len(out.q) # Len(classifier.fit_X[1])

\* C7 as stated: predict on a fitted classifier fails with
\* DimensionMismatchError whenever the query's length differs from the
\* fitted dimension, and returns no label.
C7_WrongDimensionFails ==
  WrongDimension => (out.status = "DimensionMismatchError" /\ out.label = "")

\* C7 (amended): predict on a fitted classifier never returns a label for a
\* query whose length differs from the fitted dimension; it fails with
\* DimensionMismatchError when K is positive and does not exceed the number
\* of training examples, and with InvalidKError when K exceeds it (K is
\* checked before the query is compared with the training vectors).
C7_WrongDimensionNoLabel ==
  WrongDimension =>
    /\ out.status # "ok"
    /\ out.label = ""
    /\ classifier.n_neighbors \in 1..Len(classifier.fit_X) =>
         out.status = "DimensionMismatchError"
    /\ classifier.n_neighbors > Len(classifier.fit_X) =>
         out.status = "InvalidKError"

\* a two-count query was refused by a classifier fitted on one-count vectors
C7_Witness ==
  /\ WrongDimension
  /\ Len(out.q) = 2
  /\ out.status = "DimensionMismatchError"

\* ------------------------------------------------- claims, vectorizer
\* C8: the vector the query path builds for a training document equals the
\* document's row in the matrix fit_transform returned.
C8_QueryPathMatchesRow ==
  stage = "file" =>
    \A j \in 1..Len(corpus) : text = corpus[j] => text_counts = counts[j]

\* w stands in t at position p as a whole whitespace-delimited word
WordAt(t, w, p) ==
  /\ p + Len(w) - 1 <= Len(t)
  /\ \A k \in 1..Len(w) : t[p + k - 1] = w[k]
  /\ p = 1 \/ t[p - 1] \in Whitespace
  /\ p + Len(w) - 1 = Len(t) \/ t[p + Len(w)] \in Whitespace

\* C9: the vector built for a text has exactly len(words) entries, the i-th
\* entry is the number of times the word words[i] stands in the text, and
\* the vector has as many columns as every row of the training matrix.
C9_OneEntryPerWord ==
  stage # "none" =>
    /\ Len(text_counts) = Len(words)
    /\ \A i \in 1..Len(words) :
         text_counts[i] = Cardinality({p \in 1..Len(text) : WordAt(text, words[i], p)})
    /\ \A j \in 1..Len(counts) : Len(counts[j]) = Len(text_counts)

\* a text whose vector has a zero for the first word and a one for the second
C9_Witness ==
  /\ stage = "file"
  /\ Len(words) = 2
  /\ text_counts = <<0, 1>>

\* C10: adding a word that is not in the vocabulary to a text leaves the
\* text's vector unchanged, and a text none of whose words is in the
\* vocabulary has the all-zero vector.
C10_OutOfVocabularyIgnored ==
  [][/\ \A w \in RawTokens :
          (stage = "file" /\ stage' = "extended" /\ text' = Extend(text, w)
             /\ w \notin Range(words))
            => text_counts' = text_counts
     /\ (stage' # "none" /\ \A k \in 1..Len(split(text')) :
                              split(text')[k] \notin Range(words))
            => text_counts' = [i \in 1..Len(words') |-> 0]]_vars

\* a text with a vocabulary word in it was extended by a word that is not
\* in the vocabulary
C10_Witness ==
  /\ stage = "extended"
  /\ split(text)[Len(split(text))] \notin Range(words)
  /\ \E i \in 1..Len(text_counts) : text_counts[i] > 0

\* C11: two kernels that fitted a vectorizer on the same files, enumerated
\* in different orders and followed by different earlier reads, build the
\* same text_counts for the same document
C11_SameDocumentSameVector ==
  (stage # "none" /\ other.stage # "none" /\ text = other.text)
    => text_counts = other.text_counts

\* both kernels hold the vector of the same document over a vocabulary of
\* two words whose counts differ, the corpus orders being different
C11_Witness ==
  /\ stage = "file" /\ other.stage = "file"
  /\ text = other.text
  /\ corpus # other.corpus
  /\ Len(words) = 2
  /\ text_counts[1] # text_counts[2]

\* C12: on the four example files with K = 3, predict([[5, 1]]) selects
\* [8, 1], [10, 0], [1, 7] in that order, at squared distances 9, 26 and
\* 52, and returns 'archeological'
C12_ExamplePrediction ==
  (Predicted /\ classifier.n_neighbors = n_neighbors /\ out.q = <<5, 1>>
     /\ classifier.fit_X = ExampleCounts /\ classifier.y = ExampleLabels)
    => /\ out.neigh = <<2, 1, 4>>
       /\ [i \in 1..3 |-> Dist(out.neigh[i])] = <<9, 26, 52>>
       /\ out.label = "archeological"

\* predict([[5, 1]]) has returned from the classifier of cell 17
C12_Witness ==
  /\ Predicted
  /\ classifier.n_neighbors = n_neighbors
  /\ classifier.fit_X = ExampleCounts /\ classifier.y = ExampleLabels
  /\ out.q = <<5, 1>>
  /\ out.label = "archeological"

\* C13 as stated: a fit or predict call that fails (InvalidKError,
\* DimensionMismatchError or NotFittedError) leaves the classifier, its
\* training set, its K and its fitted status, as it was before the call
C13_FailureLeavesState ==
  [][(out'.op \in {"fit", "predict"} /\ out'.status # "ok")
       => classifier' = classifier]_vars

\* labels predict can return for the query of `out` from the training set d
LabelsFrom(d) ==
  {mode([i \in 1..classifier.n_neighbors |-> d.y[s[i]]]) :
     s \in kneighbors(d.X, out.q, classifier.n_neighbors)}

\* C14 as stated: fitting a fitted classifier again does not change it, so
\* a predict on the object returns the label its original training set
\* determines, however re-fits and predicts are interleaved
C14_RefitLeavesInstance ==
  (Predicted /\ fits # <<>>) => out.label \in LabelsFrom(fits[1])

\* C14: fit stores the training set in the object it is called on, so a
\* predict on the object returns the label determined by the training set
\* of its latest fit, however re-fits and predicts are interleaved
C14_RefitReplacesTrainingSet ==
  (Predicted /\ fits # <<>>) =>
    /\ classifier.fit_X = fits[Len(fits)].X
    /\ classifier.y = fits[Len(fits)].y
    /\ out.label \in LabelsFrom(fits[Len(fits)])

\* a predict on a classifier object that was fitted twice returns the label
\* of the second training set, which the first does not determine
C14_Witness ==
  /\ Predicted
  /\ Len(fits) = 2
  /\ out.label \in LabelsFrom(fits[2])
  /\ out.label \notin LabelsFrom(fits[1])

\* both kernels hold the outcome of the same successful predict call
BothPredicted == Predicted /\ other.out.op = "predict" /\ other.out.status = "ok"

\* no two training vectors are equally distant from the query
NoDistanceTie ==
  \A i, j \in 1..Len(classifier.fit_X) : i # j => Dist(i) # Dist(j)

\* the neighbours' labels give one label more votes than any other
NoVoteTie ==
  \E l \in Range(NeighLabels) :
    \A m \in Range(NeighLabels) \ {l} : Votes(NeighLabels, l) > Votes(NeighLabels, m)

\* C15 as stated: reordering the training examples changes no prediction
\* unless a distance tie or a vote tie is involved, and of equally distant
\* examples the one with the lower index is the one selected
C15_LowerIndexAfterReorder ==
  BothPredicted =>
    /\ (NoDistanceTie /\ NoVoteTie) => out.label = other.out.label
    /\ \A i \in Range(out.neigh) :
         \A j \in 1..Len(classifier.fit_X) \ Range(out.neigh) :
           Dist(i) = Dist(j) => i < j

\* C15: reordering the training examples changes no prediction when no two
\* of them are equally distant from the query, vote tie or not
C15_OrderIrrelevantWithoutTies ==
  (BothPredicted /\ NoDistanceTie) => out.label = other.out.label

\* the same query answered from two orders of a training set of unlike
\* labels, K smaller than the training set and no distance tie: the nearest
\* vector stands at another index in the other order and the label is the
\* same
C15_Witness ==
  /\ BothPredicted
  /\ NoDistanceTie
  /\ classifier.n_neighbors < Len(classifier.fit_X)
  /\ classifier.fit_X # other.classifier.fit_X
  /\ classifier.fit_X[out.neigh[1]] # other.classifier.fit_X[out.neigh[1]]
  /\ Cardinality(Range(classifier.y)) > 1
  /\ out.label = other.out.label

\* K equals the number of training examples of a successful predict call
AllAreNeighbours == Predicted /\ classifier.n_neighbors = Len(classifier.fit_X)

\* C16 as stated: with K equal to the number of training examples predict
\* returns a most frequent training label, and on a tied tally the tied
\* label that occurs first in nearest-to-farthest order (equal distances
\* by lower index), which is the only way the query has an influence
C16_QueryBreaksTie ==
  (AllAreNeighbours /\ \A a, b \in 1..Len(out.neigh) :
                         a < b => Before(out.neigh[a], out.neigh[b])) =>
    \A m \in Range(classifier.y) :
      \/ Votes(classifier.y, out.label) > Votes(classifier.y, m)
      \/ /\ Votes(classifier.y, out.label) = Votes(classifier.y, m)
         /\ FirstAt(NeighLabels, out.label) <= FirstAt(NeighLabels, m)

\* C16: with K equal to the number of training examples predict returns,
\* for every query, a most frequent training label, and on a tied tally the
\* tied label that is first in the sorted order of the class labels; the
\* training labels alone determine the result
C16_GlobalMajority ==
  AllAreNeighbours =>
    /\ out.label \in Range(classifier.y)
    /\ \A m \in Range(classifier.y) :
         \/ Votes(classifier.y, out.label) > Votes(classifier.y, m)
         \/ /\ Votes(classifier.y, out.label) = Votes(classifier.y, m)
            /\ ClassIndex(out.label) <= ClassIndex(m)

\* K = 3 = number of training examples, the nearest example strictly the
\* closest and labelled otherwise than the two others, whose label wins
C16_Witness ==
  /\ AllAreNeighbours
  /\ classifier.n_neighbors = n_neighbors
  /\ Dist(out.neigh[1]) < Dist(out.neigh[2])
  /\ NeighLabels[1] # out.label
  /\ Votes(classifier.y, out.label) = 2

\* number of whitespace-delimited occurrences of w in t
TokenCount(t, w) == Cardinality({p \in 1..Len(t) : WordAt(t, w, p)})

\* C17: cell 5 gives every text exactly one of the two labels, and
\* 'archeological' exactly when the whitespace-delimited token 'bones'
\* occurs more than 5 times in it (5 times or never gives 'medical')
C17_MoreThanFiveBones ==
  prediction # "" =>
    /\ prediction \in {"archeological", "medical"}
    /\ prediction = "archeological" <=> TokenCount(text, Vocabulary[1]) > 5

\* a text with exactly 5 tokens 'bones' and more than 5 places where the
\* characters of 'bones' occur has been labelled 'medical'
C17_Witness ==
  /\ prediction = "medical"
  /\ TokenCount(text, Vocabulary[1]) = 5
  /\ count(text, Vocabulary[1]) > 5

\* the files the loop of cell 41 has passed that are not in the folder of
\* the disputed papers
LoadedUndisputed ==
  SelectSeq(SubSeq(files, 1, pc.next - 1), LAMBDA i : i[2] # "disputed")

\* C18 as stated: whatever files are matched, corpus and labels have the
\* same length, their entries are, in order, the texts of the files outside
\* the disputed folder, each with one of the labels Hamilton, Madison, Jay,
\* and no file of the disputed folder has an entry
C18_DisputedSkipped ==
  /\ Len(corpus) = Len(labels)
  /\ corpus = [j \in 1..Len(LoadedUndisputed) |-> read(LoadedUndisputed[j])]
  /\ \A j \in 1..Len(labels) : labels[j] \in {"Hamilton", "Madison", "Jay"}

\* C19: when the cells run top to bottom, counts has one row per label at
\* every classifier.fit(counts, labels), and at every predict the
\* classifier is fitted and the query has as many entries as the counts it
\* was last fitted on have columns; in cell 36 words and the classifier
\* stem from the same fit_transform result
C19_CallsSeeMatchingShapes ==
  /\ pc.cell \in {"17fit", "25", "34", "46fit"} => Len(counts) = Len(labels)
  /\ pc.cell = "19" =>
       classifier.fitted /\ Len(<<5, 1>>) = Len(classifier.fit_X[1])
  /\ pc.cell = "36predict" =>
       /\ classifier.fitted
       /\ Len(text_counts) = Len(classifier.fit_X[1])
       /\ classifier.fit_X = counts
       /\ counts = fit_transform(corpus) /\ words = get_feature_names(corpus)

\* cell 36 is about to call predict on the classifier fitted on the three
\* files of data_a, after cell 28 had bound counts of four rows
C19_Witness ==
  /\ pc.cell = "36predict"
  /\ classifier.fitted
  /\ Len(classifier.fit_X) = 3
  /\ Len(classifier.fit_X) # Len(fit_transform(ToyCorpus))
  /\ Len(text_counts) = Len(classifier.fit_X[1])
  /\ Len(labels) = 3

====
